---- MODULE Spec2Model ----
(***************************************************************************)
(* A model of the chersed FEN codec (src/src/lib.rs): the GameState value, *)
(* its Display implementation (fmt), its FromStr implementation (from_str),*)
(* the square_number_from_str helper and the get_piece_at /                *)
(* get_board_state queries.                                                *)
(*                                                                         *)
(* Representation.                                                         *)
(*   - a u64 Bitboard is the set of the indices (0..63) of its set bits,   *)
(*     so | is \cup and & is \cap;                                         *)
(*   - a str / String is a sequence of one-character strings;              *)
(*   - an Option<T> is a sequence of length 0 (None) or 1 (Some(v));       *)
(*   - a Rust array indexed from 0 is a sequence indexed from 1, so        *)
(*     a[i] in the source is a[i + 1] here;                                *)
(*   - integer overflow is build dependent: with overflow checks (debug    *)
(*     profile) the operation panics, without them (release profile) it    *)
(*     wraps.  Operators that can overflow take the flag `checks` and the  *)
(*     actions choose it nondeterministically.                             *)
(***************************************************************************)
EXTENDS Integers, Sequences, FiniteSets, TLC

VARIABLES
    gs,     \* Option<GameState>: the position the program holds, if any
    text,   \* the string the program holds: the input given, or what fmt wrote
    ops,    \* the calls made so far, in order
    out     \* the value returned by the last call

vars == <<gs, text, ops, out>>

-----------------------------------------------------------------------------
(* Bounds of the model *)

\* largest number of pieces on a board drawn from SamplePlacements
MaxPieces == 2

\* largest length of a placement field drawn from PlacementAlphabet
MaxLen == 3

-----------------------------------------------------------------------------
(* Numbers, characters and strings *)

U8Max == 255

None == <<>>
Some(v) == <<v>>

Min(S) == CHOOSE a \in S : \A b \in S : a <= b

DigitChars == <<"0", "1", "2", "3", "4", "5", "6", "7", "8", "9">>

AsciiDigit == {DigitChars[i] : i \in 1..10}

\* a character of Unicode general category N that is not an ASCII digit
OtherNumeric == {"²"}

\* char::is_numeric
is_numeric(c) == c \in AsciiDigit \cup OtherNumeric

HexLetters == <<"a", "b", "c", "d", "e", "f">>
HexCapitals == <<"A", "B", "C", "D", "E", "F">>

\* char::to_digit(radix) for radix 10 and 16
to_digit(c, radix) ==
    IF c \in AsciiDigit
    THEN Some((CHOOSE i \in 1..10 : DigitChars[i] = c) - 1)
    ELSE IF radix = 16 /\ \E i \in 1..6 : HexLetters[i] = c
    THEN Some((CHOOSE i \in 1..6 : HexLetters[i] = c) + 9)
    ELSE IF radix = 16 /\ \E i \in 1..6 : HexCapitals[i] = c
    THEN Some((CHOOSE i \in 1..6 : HexCapitals[i] = c) + 9)
    ELSE None

\* ToString for an unsigned integer: its decimal digits, no sign, no padding
RECURSIVE to_string(_)
to_string(n) ==
    IF n < 10 THEN <<DigitChars[n + 1]>>
    ELSE to_string(n \div 10) \o <<DigitChars[(n % 10) + 1]>>

\* str::to_lowercase on the strings the castling loop builds
to_lowercase(s) ==
    [i \in 1..Len(s) |-> CASE s[i] = "K" -> "k" [] s[i] = "Q" -> "q" [] OTHER -> s[i]]

\* str::split(sep): the pieces between the separators, the empty ones included
RECURSIVE split(_, _)
split(s, sep) ==
    IF \A i \in 1..Len(s) : s[i] # sep THEN <<s>>
    ELSE LET k == Min({i \in 1..Len(s) : s[i] = sep})
         IN <<SubSeq(s, 1, k - 1)>> \o split(SubSeq(s, k + 1, Len(s)), sep)

\* [String]::join(sep)
RECURSIVE join(_, _)
join(parts, sep) ==
    IF Len(parts) = 0 THEN <<>>
    ELSE IF Len(parts) = 1 THEN parts[1]
    ELSE parts[1] \o <<sep>> \o join(Tail(parts), sep)

\* str::contains(c) for a one-character pattern
contains(s, c) == \E i \in 1..Len(s) : s[i] = c

IntOk(v) == [ok |-> TRUE, v |-> v]
IntErr(e) == [ok |-> FALSE, err |-> e]

EmptyMsg == "cannot parse integer from empty string"
InvalidDigitMsg == "invalid digit found in string"
PosOverflowMsg == "number too large to fit in target type"

\* the digit loop of an unsigned str::parse: at each character an invalid
\* digit is reported before an overflow of the multiplication or the addition
RECURSIVE parse_digits(_, _, _)
parse_digits(s, acc, max) ==
    IF Len(s) = 0 THEN IntOk(acc)
    ELSE LET d == to_digit(s[1], 10) IN
         IF d = None THEN IntErr(InvalidDigitMsg)
         ELSE IF acc * 10 + d[1] > max THEN IntErr(PosOverflowMsg)
         ELSE parse_digits(Tail(s), acc * 10 + d[1], max)

\* str::parse::<uN>() for an unsigned type of maximum max: an optional '+',
\* then one or more decimal digits
parse_unsigned(s, max) ==
    IF Len(s) = 0 THEN IntErr(EmptyMsg)
    ELSE IF s = <<"+">> \/ s = <<"-">> THEN IntErr(InvalidDigitMsg)
    ELSE IF s[1] = "+" THEN parse_digits(Tail(s), 0, max)
    ELSE parse_digits(s, 0, max)

-----------------------------------------------------------------------------
(* Bitboard constants *)

\* the set bits of a 64-bit literal given by its 16 hexadecimal digits,
\* most significant first
HexBits(h) == {i \in 0..63 : (h[16 - (i \div 4)] \div (2 ^ (i % 4))) % 2 = 1}

FILES == <<
    HexBits(<<8,0,8,0,8,0,8,0,8,0,8,0,8,0,8,0>>),
    HexBits(<<4,0,4,0,4,0,4,0,4,0,4,0,4,0,4,0>>),
    HexBits(<<2,0,2,0,2,0,2,0,2,0,2,0,2,0,2,0>>),
    HexBits(<<1,0,1,0,1,0,1,0,1,0,1,0,1,0,1,0>>),
    HexBits(<<0,8,0,8,0,8,0,8,0,8,0,8,0,8,0,8>>),
    HexBits(<<0,4,0,4,0,4,0,4,0,4,0,4,0,4,0,4>>),
    HexBits(<<0,2,0,2,0,2,0,2,0,2,0,2,0,2,0,2>>),
    HexBits(<<0,1,0,1,0,1,0,1,0,1,0,1,0,1,0,1>>) >>

RANKS == <<
    HexBits(<<0,0,0,0,0,0,0,0,0,0,0,0,0,0,15,15>>),
    HexBits(<<0,0,0,0,0,0,0,0,0,0,0,0,15,15,0,0>>),
    HexBits(<<0,0,0,0,0,0,0,0,0,0,15,15,0,0,0,0>>),
    HexBits(<<0,0,0,0,0,0,0,0,15,15,0,0,0,0,0,0>>),
    HexBits(<<0,0,0,0,0,0,15,15,0,0,0,0,0,0,0,0>>),
    HexBits(<<0,0,0,0,15,15,0,0,0,0,0,0,0,0,0,0>>),
    HexBits(<<0,0,15,15,0,0,0,0,0,0,0,0,0,0,0,0>>),
    HexBits(<<15,15,0,0,0,0,0,0,0,0,0,0,0,0,0,0>>) >>

RANK_MATRIX == <<"a", "b", "c", "d", "e", "f", "g", "h">>

-----------------------------------------------------------------------------
(* Color and Piece *)

Black == "Black"
White == "White"

Color_index(color) == IF color = Black THEN 1 ELSE 0

Pawn(color) == [kind |-> "Pawn", color |-> color]
Knight(color) == [kind |-> "Knight", color |-> color]
Bishop(color) == [kind |-> "Bishop", color |-> color]
Rook(color) == [kind |-> "Rook", color |-> color]
Queen(color) == [kind |-> "Queen", color |-> color]
King(color) == [kind |-> "King", color |-> color]

Piece_index(piece) ==
    CASE piece.kind = "Pawn" -> 0 + Color_index(piece.color)
      [] piece.kind = "Knight" -> 2 + Color_index(piece.color)
      [] piece.kind = "Bishop" -> 4 + Color_index(piece.color)
      [] piece.kind = "Rook" -> 6 + Color_index(piece.color)
      [] piece.kind = "Queen" -> 8 + Color_index(piece.color)
      [] piece.kind = "King" -> 10 + Color_index(piece.color)

fen(piece) ==
    CASE piece.kind = "Pawn" -> IF piece.color = White THEN "P" ELSE "p"
      [] piece.kind = "Knight" -> IF piece.color = White THEN "N" ELSE "n"
      [] piece.kind = "Bishop" -> IF piece.color = White THEN "B" ELSE "b"
      [] piece.kind = "Rook" -> IF piece.color = White THEN "R" ELSE "r"
      [] piece.kind = "Queen" -> IF piece.color = White THEN "Q" ELSE "q"
      [] piece.kind = "King" -> IF piece.color = White THEN "K" ELSE "k"

from_index(index) ==
    CASE index = 0 -> Some(Pawn(White))
      [] index = 1 -> Some(Pawn(Black))
      [] index = 2 -> Some(Knight(White))
      [] index = 3 -> Some(Knight(Black))
      [] index = 4 -> Some(Bishop(White))
      [] index = 5 -> Some(Bishop(Black))
      [] index = 6 -> Some(Rook(White))
      [] index = 7 -> Some(Rook(Black))
      [] index = 8 -> Some(Queen(White))
      [] index = 9 -> Some(Queen(Black))
      [] index = 10 -> Some(King(White))
      [] index = 11 -> Some(King(Black))
      [] OTHER -> None

from_char(char) ==
    CASE char = "P" -> Some(Pawn(White))
      [] char = "p" -> Some(Pawn(Black))
      [] char = "N" -> Some(Knight(White))
      [] char = "n" -> Some(Knight(Black))
      [] char = "B" -> Some(Bishop(White))
      [] char = "b" -> Some(Bishop(Black))
      [] char = "R" -> Some(Rook(White))
      [] char = "r" -> Some(Rook(Black))
      [] char = "Q" -> Some(Queen(White))
      [] char = "q" -> Some(Queen(Black))
      [] char = "K" -> Some(King(White))
      [] char = "k" -> Some(King(Black))
      [] OTHER -> None

-----------------------------------------------------------------------------
(* GameState *)

GameState(bitboards, active_color, castling_rights, en_passant_target, half_move_clock, full_move_number) ==
    [bitboards |-> bitboards,
     active_color |-> active_color,
     castling_rights |-> castling_rights,
     en_passant_target |-> en_passant_target,
     half_move_clock |-> half_move_clock,
     full_move_number |-> full_move_number]

default_bitboards == <<
    RANKS[1 + 1],
    RANKS[6 + 1],
    HexBits(<<0,0,0,0,0,0,0,0,0,0,0,0,0,0,4,2>>),
    HexBits(<<4,2,0,0,0,0,0,0,0,0,0,0,0,0,0,0>>),
    HexBits(<<0,0,0,0,0,0,0,0,0,0,0,0,0,0,2,4>>),
    HexBits(<<2,4,0,0,0,0,0,0,0,0,0,0,0,0,0,0>>),
    HexBits(<<0,0,0,0,0,0,0,0,0,0,0,0,0,0,8,1>>),
    HexBits(<<8,1,0,0,0,0,0,0,0,0,0,0,0,0,0,0>>),
    HexBits(<<0,0,0,0,0,0,0,0,0,0,0,0,0,0,1,0>>),
    HexBits(<<1,0,0,0,0,0,0,0,0,0,0,0,0,0,0,0>>),
    HexBits(<<0,0,0,0,0,0,0,0,0,0,0,0,0,0,0,8>>),
    HexBits(<<0,8,0,0,0,0,0,0,0,0,0,0,0,0,0,0>>) >>

default ==
    GameState(default_bitboards, White, <<TRUE, TRUE, TRUE, TRUE>>, None, 0, 1)

\* get_piece_at with the file mask taken from the other end of FILES
get_piece_at_unmirrored(self, rank, file) ==
    LET mask == RANKS[rank + 1] \cap FILES[(7 - file) + 1]
        hits == {index \in 0..11 : mask \cap self.bitboards[index + 1] # {}}
    IN IF hits = {} THEN None ELSE from_index(Min(hits))

\* GameState::get_piece_at: the first bitboard, in index order, that meets
\* the square's mask
get_piece_at(self, rank, file) ==
    LET mask == RANKS[rank + 1] \cap FILES[file + 1]
        hits == {index \in 0..11 : mask \cap self.bitboards[index + 1] # {}}
    IN IF hits = {} THEN None ELSE from_index(Min(hits))

\* GameState::get_board_state
get_board_state(self) ==
    [rank \in 1..8 |-> [file \in 1..8 |-> get_piece_at(self, rank - 1, file - 1)]]

-----------------------------------------------------------------------------
(* impl Display for GameState *)

\* flush_blanks without the test blanks > 0
flush_blanks_untested(buffer, blanks) == buffer \o to_string(blanks)

\* what to_string of the pending run of blanks adds to the buffer
flush_blanks(buffer, blanks) ==
    IF blanks > 0 THEN buffer \o to_string(blanks) ELSE buffer

\* the inner loop of fmt over one rank of the board, from cell i on, and
\* the flush that follows it
RECURSIVE fmt_rank(_, _, _, _)
fmt_rank(row, i, blanks, buffer) ==
    IF i > Len(row) THEN flush_blanks(buffer, blanks)
    ELSE IF row[i] # None
    THEN fmt_rank(row, i + 1, 0, flush_blanks(buffer, blanks) \o <<fen(row[i][1])>>)
    ELSE fmt_rank(row, i + 1, blanks + 1, buffer)

\* fmt_position without the .rev(): the ranks 0 up to 7
fmt_position_ascending(self) ==
    LET board_state == get_board_state(self)
        position == [k \in 1..8 |-> fmt_rank(board_state[(k - 1) + 1], 1, 0, <<>>)]
    IN join(position, "/")

\* the placement field: the ranks 7 down to 0, joined by "/"
fmt_position(self) ==
    LET board_state == get_board_state(self)
        position == [k \in 1..8 |-> fmt_rank(board_state[(7 - (k - 1)) + 1], 1, 0, <<>>)]
    IN join(position, "/")

fmt_active_color(color) == IF color = Black THEN <<"b">> ELSE <<"w">>

\* what one turn of the castling loop pushes to the buffer
fmt_castling_char(i, can_castle) ==
    LET char == IF i % 2 = 0 /\ can_castle THEN <<"K">>
                ELSE IF can_castle THEN <<"Q">>
                ELSE <<>>
    IN IF i >= 2 THEN to_lowercase(char) ELSE char

fmt_castling(castling_rights) ==
    LET buffer == fmt_castling_char(0, castling_rights[1])
                  \o fmt_castling_char(1, castling_rights[2])
                  \o fmt_castling_char(2, castling_rights[3])
                  \o fmt_castling_char(3, castling_rights[4])
    IN IF buffer = <<>> THEN <<"-">> ELSE buffer

\* the en-passant field; indexing RANK_MATRIX out of bounds panics
fmt_en_passant(en_passant_target) ==
    IF en_passant_target = None THEN [panic |-> FALSE, s |-> <<"-">>]
    ELSE LET file == (en_passant_target[1] % 8) + 1
             at == en_passant_target[1] \div 8
         IN IF at >= Len(RANK_MATRIX) THEN [panic |-> TRUE, s |-> <<>>]
            ELSE [panic |-> FALSE, s |-> <<RANK_MATRIX[at + 1]>> \o to_string(file)]

\* Display::fmt, as the string that format!("{}") returns
fmt(self) ==
    LET ep == fmt_en_passant(self.en_passant_target) IN
    IF ep.panic THEN [kind |-> "Panic"]
    ELSE [kind |-> "Written",
          s |-> fmt_position(self) \o <<" ">>
                \o fmt_active_color(self.active_color) \o <<" ">>
                \o fmt_castling(self.castling_rights) \o <<" ">>
                \o ep.s \o <<" ">>
                \o to_string(self.half_move_clock) \o <<" ">>
                \o to_string(self.full_move_number)]

-----------------------------------------------------------------------------
(* square_number_from_str *)

\* u8 subtraction and addition: whether the result leaves 0..255, and the
\* wrapped result
u8_sub(a, b) == [over |-> a - b < 0, v |-> (a - b) % (U8Max + 1)]
u8_add(a, b) == [over |-> a + b > U8Max, v |-> (a + b) % (U8Max + 1)]

\* first as u8 - 10 * 8 + second as u8 - 1, evaluated left to right; each ?
\* returns None; an overflow panics under checks and wraps otherwise
square_number_from_str(str, checks) ==
    IF Len(str) < 1 THEN [kind |-> "None", wrapped |-> FALSE]
    ELSE LET first == to_digit(str[1], 16) IN
    IF first = None THEN [kind |-> "None", wrapped |-> FALSE]
    ELSE LET a == u8_sub(first[1], 10 * 8) IN
    IF a.over /\ checks THEN [kind |-> "Panic"]
    ELSE IF Len(str) < 2 THEN [kind |-> "None", wrapped |-> a.over]
    ELSE LET second == to_digit(str[2], 10) IN
    IF second = None THEN [kind |-> "None", wrapped |-> a.over]
    ELSE LET b == u8_add(a.v, second[1]) IN
    IF b.over /\ checks THEN [kind |-> "Panic"]
    ELSE LET c == u8_sub(b.v, 1) IN
    IF c.over /\ checks THEN [kind |-> "Panic"]
    ELSE [kind |-> "Some", v |-> c.v, wrapped |-> a.over \/ b.over \/ c.over]

-----------------------------------------------------------------------------
(* impl FromStr for GameState *)

Ok(val, wrapped) == [kind |-> "Ok", val |-> val, wrapped |-> wrapped]
Err(msg) == [kind |-> "Err", msg |-> msg]
Panic == [kind |-> "Panic"]

\* splits.get(i)
get(splits, i) == IF i < Len(splits) THEN Some(splits[i + 1]) ELSE None

\* next_file without the increment
next_file_stuck(file) == file

\* what a piece letter does to the file counter
next_file(file) == file + 1

\* shift_amount with the file not mirrored
shift_amount_unmirrored(rank, file) ==
    [over |-> rank > 7 \/ file > 7, v |-> ((7 - rank) * 8 + file) % 64]

\* the shift 1 << ((7 - rank) * 8 + (7 - file)) in usize arithmetic: either
\* subtraction underflows when its operand exceeds 7; wrapped, the amount is
\* taken modulo the 64 bits of the board
shift_amount(rank, file) ==
    [over |-> rank > 7 \/ file > 7, v |-> ((7 - rank) * 8 + (7 - file)) % 64]

\* one turn of the inner placement loop; acc is the loop's state.  The
\* string parsed as usize is the one character, so its value is at most 9
\* and only an invalid digit can make the parse fail
scan_char(acc, rank, piece, checks) ==
    IF acc.st # "run" THEN acc
    ELSE IF from_char(piece) # None
    THEN LET sh == shift_amount(rank, acc.file)
             index == Piece_index(from_char(piece)[1])
         IN IF sh.over /\ checks THEN [acc EXCEPT !.st = "panic"]
            ELSE [acc EXCEPT !.bitboards[index + 1] = @ \cup {sh.v},
                             !.file = next_file(@),
                             !.wrapped = @ \/ sh.over]
    ELSE IF is_numeric(piece)
    THEN LET n == parse_digits(<<piece>>, 0, 9) IN
         IF n.ok THEN [acc EXCEPT !.file = @ + n.v]
         ELSE [acc EXCEPT !.st = "err",
                          !.msg = "Could not parse character a number: " \o n.err]
    ELSE acc

RECURSIVE scan_group(_, _, _, _)
scan_group(acc, rank, file_val, checks) ==
    IF Len(file_val) = 0 THEN acc
    ELSE scan_group(scan_char(acc, rank, file_val[1], checks), rank, Tail(file_val), checks)

\* the outer placement loop over board.split("/").enumerate(), from the
\* group of index rank on; file starts at 0 in every group
RECURSIVE scan_board(_, _, _, _)
scan_board(acc, groups, rank, checks) ==
    IF rank >= Len(groups) THEN acc
    ELSE scan_board(scan_group([acc EXCEPT !.file = 0], rank, groups[rank + 1], checks),
                    groups, rank + 1, checks)

from_str_board(board, checks) ==
    scan_board([st |-> "run", bitboards |-> [i \in 1..12 |-> {}], file |-> 0,
                wrapped |-> FALSE, msg |-> ""],
               split(board, "/"), 0, checks)

from_str_active_color(field) == IF field = <<"w">> THEN White ELSE Black

\* from_str_castling with the indices of "k" and "Q" exchanged
from_str_castling_exchanged(castling_rights_str) ==
    LET r0 == <<FALSE, FALSE, FALSE, FALSE>>
        r1 == IF contains(castling_rights_str, "K") THEN [r0 EXCEPT ![0 + 1] = TRUE] ELSE r0
        r2 == IF contains(castling_rights_str, "k") THEN [r1 EXCEPT ![1 + 1] = TRUE] ELSE r1
        r3 == IF contains(castling_rights_str, "Q") THEN [r2 EXCEPT ![2 + 1] = TRUE] ELSE r2
        r4 == IF contains(castling_rights_str, "q") THEN [r3 EXCEPT ![3 + 1] = TRUE] ELSE r3
    IN r4

from_str_castling(castling_rights_str) ==
    LET r0 == <<FALSE, FALSE, FALSE, FALSE>>
        r1 == IF contains(castling_rights_str, "K") THEN [r0 EXCEPT ![0 + 1] = TRUE] ELSE r0
        r2 == IF contains(castling_rights_str, "k") THEN [r1 EXCEPT ![2 + 1] = TRUE] ELSE r1
        r3 == IF contains(castling_rights_str, "Q") THEN [r2 EXCEPT ![1 + 1] = TRUE] ELSE r2
        r4 == IF contains(castling_rights_str, "q") THEN [r3 EXCEPT ![3 + 1] = TRUE] ELSE r3
    IN r4

from_str_en_passant(en_passant_target_str, checks) ==
    IF en_passant_target_str = <<"-">> THEN [kind |-> "None", wrapped |-> FALSE]
    ELSE square_number_from_str(en_passant_target_str, checks)

\* not_enough_fields with the bound one too small
not_enough_fields_below_five(splits) == Len(splits) < 5

\* the test that makes from_str give up at once
not_enough_fields(splits) == Len(splits) < 6

\* FromStr::from_str
from_str(s, checks) ==
    LET splits == split(s, " ") IN
    IF not_enough_fields(splits) THEN Err("Not enough fields for ")
    ELSE IF get(splits, 0) = None THEN Err("No board state")
    ELSE LET b == from_str_board(get(splits, 0)[1], checks) IN
    IF b.st = "panic" THEN Panic
    ELSE IF b.st = "err" THEN Err(b.msg)
    ELSE IF get(splits, 1) = None THEN Err("No color")
    ELSE IF get(splits, 2) = None THEN Err("No castling rights")
    ELSE IF get(splits, 3) = None THEN Err("No en passant target")
    ELSE LET ep == from_str_en_passant(get(splits, 3)[1], checks) IN
    IF ep.kind = "Panic" THEN Panic
    ELSE IF get(splits, 4) = None THEN Err("No half move clock")
    ELSE LET half == parse_unsigned(get(splits, 4)[1], U8Max) IN
    IF ~half.ok THEN Err("Could not parse half move clock: " \o half.err)
    ELSE IF get(splits, 5) = None THEN Err("No full move number")
    ELSE LET full == parse_unsigned(get(splits, 5)[1], U8Max) IN
    IF ~full.ok THEN Err("Could not parse full move number: " \o full.err)
    ELSE Ok(GameState(b.bitboards,
                      from_str_active_color(get(splits, 1)[1]),
                      from_str_castling(get(splits, 2)[1]),
                      IF ep.kind = "Some" THEN Some(ep.v) ELSE None,
                      half.v, full.v),
            b.wrapped \/ ep.wrapped)

-----------------------------------------------------------------------------
(* The positions and the input strings the program is run on *)

AllTrue == <<TRUE, TRUE, TRUE, TRUE>>

EmptyBoard == [i \in 1..12 |-> {}]

\* a placement <<index, square>> puts the piece of that index on that square
AllPlacements == {<<index, square>> : index \in 0..11, square \in 0..63}

SamplePlacements ==
    {<<index, square>> : index \in {0, 1, 6, 11}, square \in {0, 1, 7, 8, 27, 55, 62, 63}}

BoardOf(S) == [i \in 1..12 |-> {p[2] : p \in {q \in S : q[1] = i - 1}}]

\* the sets of at most n sample placements; two placements may share a square
RECURSIVE PlacementSets(_)
PlacementSets(n) ==
    IF n = 0 THEN {{}}
    ELSE LET prev == PlacementSets(n - 1)
         IN prev \cup {S \cup {p} : S \in prev, p \in SamplePlacements}

Boards ==
    {default_bitboards}
    \cup {BoardOf({p}) : p \in AllPlacements}
    \cup {BoardOf(S) : S \in PlacementSets(MaxPieces)}

Colors == {White, Black}

Positions ==
    {GameState(b, White, AllTrue, None, 0, 1) : b \in Boards}
    \cup {GameState(EmptyBoard, c, cr, ep, 0, 1) :
            c \in Colors, cr \in [1..4 -> BOOLEAN],
            ep \in {None, Some(0), Some(9), Some(47), Some(48), Some(63), Some(64)}}
    \cup {GameState(default_bitboards, White, AllTrue, Some(square), 0, 1) : square \in 0..63}
    \cup {GameState(default_bitboards, Black, AllTrue, None, n, 1) : n \in 0..U8Max}
    \cup {GameState(default_bitboards, Black, AllTrue, None, 0, n) : n \in 0..U8Max}
    \cup {GameState(default_bitboards, Black, AllTrue, None, U8Max, U8Max)}

PlacementAlphabet == {"p", "K", "/", "8", "1", "0", "x", "²"}

\* the strings over PlacementAlphabet of length at most n
RECURSIVE Strings(_)
Strings(n) ==
    IF n = 0 THEN {<<>>}
    ELSE LET prev == Strings(n - 1)
         IN prev \cup {Append(w, c) : w \in prev, c \in PlacementAlphabet}

StartPlacement ==
    <<"r","n","b","q","k","b","n","r","/","p","p","p","p","p","p","p","p","/",
      "8","/","8","/","8","/","8","/",
      "P","P","P","P","P","P","P","P","/","R","N","B","Q","K","B","N","R">>

EmptyPlacement == <<"8","/","8","/","8","/","8","/","8","/","8","/","8","/","8">>

LongPlacements ==
    {StartPlacement, EmptyPlacement,
     <<"/","/","/","/","/","/","/","/">>,
     <<"/","/","/","/","/","/","/","/","p">>,
     <<"8","/","8","/","8","/","8","/","8","/","8","/","8","/","8","/","K">>,
     <<"p","p","p","p","p","p","p","p","p">>,
     <<"8","p","/","P","7">>,
     <<"9","/","Q","7","/","4","k","3">>,
     <<"N","1","n","1","B","1","b","1","/","R","r","5","q">>}

Placements == Strings(MaxLen) \cup LongPlacements

ColorFields == {<<"w">>, <<"b">>, <<"x">>, <<>>}

CastlingFields ==
    {<<"-">>, <<"K","Q","k","q">>, <<"q","K">>, <<"K","k">>, <<"Q">>, <<"x">>, <<>>}

EnPassantFields ==
    {<<"-">>, <<"a","1">>, <<"e","3">>, <<"h","8">>, <<"g","1">>, <<"F","5">>,
     <<"a">>, <<>>, <<"z","9">>, <<"f","9">>, <<"a","0">>, <<"0","0">>, <<"a","x">>}

NumberFields ==
    {<<"0">>, <<"1">>, <<"2","5","5">>, <<"2","5","6">>, <<"+","5">>, <<"-","1">>,
     <<>>, <<"x">>, <<"0","0","7">>, <<"1","x">>, <<"9","9","9","x">>, <<"+">>}

\* field lists cut short or grown long, some with fields that would fail or
\* abort if they were looked at
FieldLists ==
    {<<StartPlacement, <<"w">>, <<"K","Q","k","q">>, <<"-">>, <<"0">>, <<"1">>, <<"x">>>>,
     <<<<"8","p">>, <<"w">>, <<"-">>, <<"a","1">>, <<"x">>, <<"y">>, <<"z">>>>,
     <<<<"²">>, <<>>, <<"-">>, <<"-">>, <<"0">>, <<>>, <<"1">>>>}

Inputs ==
    {join(<<pl, <<"w">>, <<"-">>, <<"-">>, <<"0">>, <<"1">>>>, " ") : pl \in Placements}
    \cup {join(<<EmptyPlacement, c, cr, <<"-">>, <<"0">>, <<"1">>>>, " ") :
            c \in ColorFields, cr \in CastlingFields}
    \cup {join(<<<<"8">>, <<"w">>, <<"-">>, ep, h, f>>, " ") :
            ep \in EnPassantFields, h \in NumberFields, f \in NumberFields}
    \cup {join(SubSeq(fields, 1, n), " ") : fields \in FieldLists, n \in 0..7}

-----------------------------------------------------------------------------
(* The state machine: one action per call *)

NoValue == [kind |-> "None"]

\* the program holds a string nobody has parsed yet: the input it was given,
\* or the one fmt has just written
HoldsText ==
    \/ ops = <<>> /\ gs = None
    \/ ops # <<>> /\ ops[Len(ops)] = "fmt" /\ out.kind = "Written"

\* the program holds a position and has not used it yet
HoldsPosition == gs # None /\ ops \in {<<>>, <<"default">>}

Init ==
    /\ ops = <<>>
    /\ out = NoValue
    /\ \/ gs \in {Some(p) : p \in Positions} /\ text = <<>>
       \/ gs = None /\ text \in Inputs

\* GameState::default()
Default ==
    /\ gs = None /\ text = <<>> /\ ops = <<>>
    /\ gs' = Some(default)
    /\ ops' = Append(ops, "default")
    /\ out' = NoValue
    /\ UNCHANGED text

\* format!("{game_state}")
Fmt ==
    /\ HoldsPosition
    /\ LET r == fmt(gs[1])
       IN /\ out' = [kind |-> r.kind]
          /\ text' = IF r.kind = "Written" THEN r.s ELSE text
    /\ ops' = Append(ops, "fmt")
    /\ UNCHANGED gs

\* text.parse::<GameState>(), in a build with or without overflow checks
FromStr ==
    /\ HoldsText
    /\ \E checks \in BOOLEAN : out' = from_str(text, checks)
    /\ ops' = Append(ops, "from_str")
    /\ UNCHANGED <<gs, text>>

\* square_number_from_str on the en-passant field of the string held
SquareNumberFromStr ==
    /\ HoldsText
    /\ Len(split(text, " ")) >= 4
    /\ \E checks \in BOOLEAN : out' = square_number_from_str(split(text, " ")[4], checks)
    /\ ops' = Append(ops, "square_number_from_str")
    /\ UNCHANGED <<gs, text>>

\* game_state.get_piece_at(rank, file)
GetPieceAt ==
    /\ HoldsPosition
    /\ \E rank \in 0..7, file \in 0..7 :
         out' = [kind |-> "Piece", rank |-> rank, file |-> file,
                 piece |-> get_piece_at(gs[1], rank, file)]
    /\ ops' = Append(ops, "get_piece_at")
    /\ UNCHANGED <<gs, text>>

\* game_state.get_board_state()
GetBoardState ==
    /\ HoldsPosition
    /\ out' = [kind |-> "Board", board |-> get_board_state(gs[1])]
    /\ ops' = Append(ops, "get_board_state")
    /\ UNCHANGED <<gs, text>>

Next ==
    \/ Default
    \/ Fmt
    \/ FromStr
    \/ SquareNumberFromStr
    \/ GetPieceAt
    \/ GetBoardState

Spec == Init /\ [][Next]_vars

-----------------------------------------------------------------------------
(* Vocabulary of the properties *)

LastOp == IF ops = <<>> THEN "" ELSE ops[Len(ops)]

\* the last two calls were fmt and then from_str on what fmt wrote
RoundTripped ==
    Len(ops) >= 2 /\ ops[Len(ops)] = "from_str" /\ ops[Len(ops) - 1] = "fmt"

\* the last two calls were fmt and then square_number_from_str on the
\* en-passant field fmt wrote
SquareRoundTripped ==
    Len(ops) >= 2 /\ ops[Len(ops)] = "square_number_from_str" /\ ops[Len(ops) - 1] = "fmt"

Disjoint(bitboards) ==
    \A i \in 1..12 : \A j \in 1..12 : i # j => bitboards[i] \cap bitboards[j] = {}

\* the number of fields of a string: one more than its spaces
FieldCount(s) == Cardinality({i \in 1..Len(s) : s[i] = " "}) + 1

Field(s, i) == split(s, " ")[i + 1]

PieceLetters == {"P", "p", "N", "n", "B", "b", "R", "r", "Q", "q", "K", "k"}

AllPieces ==
    {Pawn(White), Pawn(Black), Knight(White), Knight(Black), Bishop(White), Bishop(Black),
     Rook(White), Rook(Black), Queen(White), Queen(Black), King(White), King(Black)}

RECURSIVE SumSeq(_)
SumSeq(q) == IF Len(q) = 0 THEN 0 ELSE q[1] + SumSeq(Tail(q))

StartFen ==
    <<"r","n","b","q","k","b","n","r","/","p","p","p","p","p","p","p","p","/",
      "8","/","8","/","8","/","8","/",
      "P","P","P","P","P","P","P","P","/","R","N","B","Q","K","B","N","R",
      " ","w"," ","K","Q","k","q"," ","-"," ","0"," ","1">>

-----------------------------------------------------------------------------
(* The properties *)

\* C1: parse after serialize gives the position back.  For every position
\* with pairwise disjoint bitboards and no en-passant target, from_str on what
\* fmt wrote returns Ok with a GameState equal to it in every field; the
\* standard starting position is one of them.
C1_RoundTrip ==
    /\ (RoundTripped /\ Disjoint(gs[1].bitboards) /\ gs[1].en_passant_target = None)
         => (out.kind = "Ok" /\ out.val = gs[1])
    /\ ops = <<"default", "fmt", "from_str">>
         => (out.kind = "Ok" /\ out.val = default)

C1_Witness ==
    /\ RoundTripped
    /\ out.kind = "Ok"
    /\ Disjoint(gs[1].bitboards)
    /\ gs[1].bitboards[11 + 1] = {27}
    /\ gs[1].bitboards[0 + 1] = {62}

\* C2: fmt of default() is exactly
\* "rnbqkbnr/pppppppp/8/8/8/8/PPPPPPPP/RNBQKBNR w KQkq - 0 1": six fields,
\* single spaces, no leading or trailing whitespace.
C2_DefaultFen ==
    ops = <<"default", "fmt">>
      => /\ out.kind = "Written"
         /\ text = StartFen
         /\ FieldCount(text) = 6
         /\ \A i \in 0..5 : Field(text, i) # <<>>

C2_Witness == ops = <<"default", "fmt">> /\ gs = Some(default) /\ text # <<>>

\* C3: on a string of fewer than 6 space-separated fields from_str returns
\* the error "Not enough fields for ": no abort, no position, whatever the
\* fields hold.
C3_NotEnoughFields ==
    (LastOp = "from_str" /\ FieldCount(text) < 6)
      => out = [kind |-> "Err", msg |-> "Not enough fields for "]

C3_Witness ==
    /\ LastOp = "from_str"
    /\ text = <<"8","p"," ","w"," ","-"," ","a","1">>
    /\ out.kind = "Err"

\* C4: on a string of at least 6 fields from_str returns a position or an
\* error and never aborts.
C4_ParseTotal ==
    (LastOp = "from_str" /\ FieldCount(text) >= 6) => out.kind \in {"Ok", "Err"}

\* C5: for each square 0..63, square_number_from_str on the en-passant token
\* fmt writes for it returns that square; "-" comes back as no target.
C5_EnPassantRoundTrip ==
    /\ (SquareRoundTripped /\ gs[1].en_passant_target # None
          /\ gs[1].en_passant_target[1] \in 0..63)
         => (out.kind = "Some" /\ out.v = gs[1].en_passant_target[1])
    /\ (RoundTripped /\ out.kind = "Ok" /\ gs[1].en_passant_target = None)
         => out.val.en_passant_target = None

\* the characters K, Q, k, q of the true flags, in index order
CastlingLetters(rights) ==
    (IF rights[1] THEN <<"K">> ELSE <<>>) \o (IF rights[2] THEN <<"Q">> ELSE <<>>)
    \o (IF rights[3] THEN <<"k">> ELSE <<>>) \o (IF rights[4] THEN <<"q">> ELSE <<>>)

NoRights == <<FALSE, FALSE, FALSE, FALSE>>

\* C6: the castling field round trips.  fmt writes the letters K, Q, k, q of
\* the true flags in index order, or "-" when none is true; from_str on that
\* field gives the same four flags back.
C6_CastlingRoundTrip ==
    /\ (LastOp = "fmt" /\ out.kind = "Written")
         => /\ Field(text, 2) =
                 (IF gs[1].castling_rights = NoRights THEN <<"-">>
                  ELSE CastlingLetters(gs[1].castling_rights))
            /\ from_str_castling(Field(text, 2)) = gs[1].castling_rights
    /\ (RoundTripped /\ out.kind = "Ok")
         => out.val.castling_rights = gs[1].castling_rights
    /\ (RoundTripped /\ gs[1].en_passant_target = None) => out.kind = "Ok"

C6_Witness ==
    /\ RoundTripped
    /\ out.kind = "Ok"
    /\ gs[1].castling_rights = <<FALSE, TRUE, TRUE, FALSE>>
    /\ Field(text, 2) = <<"Q", "k">>

C6_WitnessNone ==
    /\ RoundTripped
    /\ out.kind = "Ok"
    /\ gs[1].castling_rights = NoRights
    /\ out.val.castling_rights = NoRights

\* the cell agrees with the bitboards: it holds the variant p iff the bit
\* rank * 8 + (7 - file) is set in the bitboard of index(p), and nothing iff
\* the bit is clear in all twelve
CellMatchesBits(self, rank, file, cell) ==
    LET bit == rank * 8 + (7 - file) IN
    /\ \A p \in AllPieces : (cell = Some(p)) <=> (bit \in self.bitboards[Piece_index(p) + 1])
    /\ (cell = None) <=> (\A i \in 1..12 : bit \notin self.bitboards[i])

\* C7: for a position with pairwise disjoint bitboards get_piece_at(rank,
\* file) agrees with bit rank * 8 + (7 - file) of the bitboards, and every
\* cell of get_board_state() is what get_piece_at returns for it.
C7_GridConsistency ==
    /\ (LastOp = "get_piece_at" /\ Disjoint(gs[1].bitboards))
         => CellMatchesBits(gs[1], out.rank, out.file, out.piece)
    /\ (LastOp = "get_board_state" /\ Disjoint(gs[1].bitboards))
         => \A rank \in 0..7 : \A file \in 0..7 :
              /\ CellMatchesBits(gs[1], rank, file, out.board[rank + 1][file + 1])
              /\ out.board[rank + 1][file + 1] = get_piece_at(gs[1], rank, file)

C7_Witness ==
    /\ LastOp = "get_piece_at"
    /\ Disjoint(gs[1].bitboards)
    /\ out.piece = Some(Rook(White))
    /\ out.rank = 3 /\ out.file = 4

C7_WitnessBoard ==
    /\ LastOp = "get_board_state"
    /\ Disjoint(gs[1].bitboards)
    /\ out.board[3 + 1][4 + 1] = Some(Rook(White))

\* the field is an optional "+", then zeros, then the decimal digits of n
Denotes(field, n) ==
    LET digits == IF field # <<>> /\ field[1] = "+" THEN Tail(field) ELSE field
    IN \E z \in 0..Len(digits) : digits = [i \in 1..z |-> "0"] \o to_string(n)

IsU8(field) == \E n \in 0..255 : Denotes(field, n)

ParseIntMsgs == {EmptyMsg, InvalidDigitMsg, PosOverflowMsg}

\* C8: on a string of at least 6 fields whose placement field parses,
\* from_str returns a position iff fields 4 and 5 are both decimal integers in
\* 0..255, and then stores these two values; otherwise it returns an error,
\* the one of the half-move clock when both are malformed.
C8_NumericFields ==
    (LastOp = "from_str" /\ FieldCount(text) >= 6
       /\ from_str_board(Field(text, 0), TRUE).st = "run")
      => /\ (out.kind = "Ok") <=> (IsU8(Field(text, 4)) /\ IsU8(Field(text, 5)))
         /\ out.kind = "Ok"
              => /\ Denotes(Field(text, 4), out.val.half_move_clock)
                 /\ Denotes(Field(text, 5), out.val.full_move_number)
         /\ ~(IsU8(Field(text, 4)) /\ IsU8(Field(text, 5))) => out.kind = "Err"
         /\ ~IsU8(Field(text, 4))
              => /\ out.kind = "Err"
                 /\ out.msg \in {"Could not parse half move clock: " \o m : m \in ParseIntMsgs}

\* C9: a position from_str returns without any wrapped arithmetic has
\* pairwise disjoint bitboards, and no bit of it was set twice: it has as many
\* set bits as its placement field has piece letters.
C9_ParseDisjoint ==
    (LastOp = "from_str" /\ out.kind = "Ok" /\ ~out.wrapped)
      => /\ Disjoint(out.val.bitboards)
         /\ SumSeq([i \in 1..12 |-> Cardinality(out.val.bitboards[i])])
              = Cardinality({i \in 1..Len(Field(text, 0)) : Field(text, 0)[i] \in PieceLetters})

C9_Witness ==
    /\ ops = <<"from_str">>
    /\ out.kind = "Ok" /\ ~out.wrapped
    /\ out.val.bitboards[8 + 1] = {55}
    /\ out.val.bitboards[11 + 1] = {43}

DigitValue(c) == (CHOOSE i \in 1..10 : DigitChars[i] = c) - 1

\* a rank-group of the placement field: letters and digits 1..8 only, no two
\* digits side by side, 8 files in all
WellFormedGroup(g) ==
    /\ \A i \in 1..Len(g) : g[i] \in PieceLetters \cup (AsciiDigit \ {"0", "9"})
    /\ \A i \in 1..(Len(g) - 1) : ~(g[i] \in AsciiDigit /\ g[i + 1] \in AsciiDigit)
    /\ SumSeq([i \in 1..Len(g) |-> IF g[i] \in AsciiDigit THEN DigitValue(g[i]) ELSE 1]) = 8

\* C10: for every position, also one whose bitboards overlap, the placement
\* field fmt writes is 8 well formed rank-groups separated by "/", and a rank
\* without a piece is written as "8".
C10_PlacementWellFormed ==
    (LastOp = "fmt" /\ out.kind = "Written")
      => LET groups == split(Field(text, 0), "/") IN
         /\ Len(groups) = 8
         /\ \A k \in 1..8 : WellFormedGroup(groups[k])
         /\ \A rank \in 0..7 :
              (\A i \in 1..12 : gs[1].bitboards[i] \cap (rank * 8 .. rank * 8 + 7) = {})
                => groups[(7 - rank) + 1] = <<"8">>

C10_Witness ==
    /\ LastOp = "fmt" /\ out.kind = "Written"
    /\ ~Disjoint(gs[1].bitboards)
    /\ gs[1].bitboards[0 + 1] = {8}
    /\ gs[1].bitboards[11 + 1] = {8}

====
